---- MODULE Spec2Model ----
(***************************************************************************)
(* dayswithout: a Telegram bot that counts the days since the last         *)
(* recorded mention of a topic (src/main.go, first program of the file;   *)
(* the update loop of the second program has a section of its own).        *)
(*                                                                         *)
(* Time is counted in clock units; Second units make one second, so an     *)
(* instant carries a sub-second part as time.Now() does.  The zero         *)
(* time.Time{} is TimeZero; the clock starts after it.  The wall clock and *)
(* the monotonic reading of time.Now() advance together.                   *)
(*                                                                         *)
(* data.json is a sequence of characters.  The indentation written by      *)
(* json.MarshalIndent is left out and the key "last_mention" with its      *)
(* quotes is one character of the sequence.  The RFC 3339 text of an       *)
(* instant is its decimal numeral in clock units.                          *)
(***************************************************************************)
EXTENDS Integers, Sequences, FiniteSets, TLC

VARIABLES
    now,        \* the clock read by time.Now() and time.Since()
    ticks,      \* number of clock advances so far (bounded by MaxTicks)
    proc,       \* "up", or why the process is down: "down", "down_insave"
    storage,    \* main's variable storage.LastMention (in memory)
    file,       \* data.json: [exists, data]
    ev,         \* the step that was taken last
    out,        \* the messages sent by the handler that ran last
    faults,     \* number of I/O failures and crashes so far (bounded by MaxFaults)
    noticeAge,  \* <<time since a notice of the last minute, no reset since>>, or <<>>
    committed,  \* after a crash in saveStorage: what data.json held before the save
    writing,    \* after a crash in saveStorage: the instant that was being saved
    pc,         \* concurrent dispatch: position of each handler goroutine
    loc,        \* concurrent dispatch: locals of each handler goroutine
    lastReset,  \* <<instant of the last /reset this process handled>>, or <<>>
    matcher     \* the matcher on its own: configuration, text and result

vars == <<now, ticks, faults, proc, storage, file, ev, out, noticeAge, committed, writing,
          pc, loc, lastReset, matcher>>

-----------------------------------------------------------------------------
(* Bounds *)

Second == 2          \* clock units per second
MaxTicks == 2        \* clock advances per behaviour
MaxFaults == 1       \* I/O failures and crashes per behaviour
MaxHours == 75       \* age in hours of the oldest record a /days query is tried on
StartNow == 1001     \* the clock at startup
MaxDoc == 3          \* length of the longest arbitrary content of data.json
MaxText == 4         \* length of the longest arbitrary message text

-----------------------------------------------------------------------------
(* Time *)

TimeZero == 0
Minute == 60 * Second
Hour == 60 * Minute
Day == 24 * Hour
CooldownWindow == 2 * Hour

\* The clock advances the scenarios of the specification need.
Deltas == { Minute, CooldownWindow - Second, CooldownWindow, 3 * Day + 2 * Hour }

IsZero(t) == t = TimeZero

\* time.Since(t); Until is the difference taken the other way round.
Until(t, clock) == t - clock
Since(t, clock) == clock - t

\* int(x) of a float64: truncation toward zero.
TruncDiv(a, b) == IF a >= 0 THEN a \div b ELSE -((-a) \div b)

\* int(time.Since(t).Hours() / 24); DaysRounded rounds to the nearest day.
DaysRounded(t, clock) == (Since(t, clock) + (Day \div 2)) \div Day
DaysSince(t, clock) == TruncDiv(Since(t, clock), Day)

\* t.Format("02.01.2006 15:04:05"): the instant to the second.
Format(t) == t \div Second

-----------------------------------------------------------------------------
(* data.json *)

DigitChars == <<"0", "1", "2", "3", "4", "5", "6", "7", "8", "9">>

IsDigit(c) == \E i \in 1..10 : DigitChars[i] = c
DigitVal(c) == (CHOOSE i \in 1..10 : DigitChars[i] = c) - 1

RECURSIVE TimeText(_)
TimeText(t) ==
    IF t < 10 THEN <<DigitChars[t + 1]>>
    ELSE TimeText(t \div 10) \o <<DigitChars[(t % 10) + 1]>>

RECURSIVE ParseDigits(_)
ParseDigits(s) ==
    IF s = <<>> THEN 0
    ELSE 10 * ParseDigits(SubSeq(s, 1, Len(s) - 1)) + DigitVal(s[Len(s)])

DocHead == <<"{", "last_mention", ":", "\"">>
DocTail == <<"\"", "}">>

\* json.MarshalIndent(s, "", "  ")
MarshalToMinute(t) == DocHead \o TimeText((t \div Minute) * Minute) \o DocTail
Marshal(t) == DocHead \o TimeText(t) \o DocTail

NoFile == [exists |-> FALSE, data |-> <<>>]
FileOf(d) == [exists |-> TRUE, data |-> d]

\* The documents json.Unmarshal accepts: the value null, an object without
\* the field, or an object whose field is a string ("null" is one character
\* of the sequence).
IsRecordDoc(d) ==
    /\ Len(d) >= Len(DocHead) + Len(DocTail)
    /\ SubSeq(d, 1, Len(DocHead)) = DocHead
    /\ SubSeq(d, Len(d) - 1, Len(d)) = DocTail
    /\ \A i \in (Len(DocHead) + 1)..(Len(d) - 2) : d[i] \notin {"\"", "{", "}"}

FieldText(d) == SubSeq(d, Len(DocHead) + 1, Len(d) - 2)

IsTimeText(s) == s # <<>> /\ \A i \in 1..Len(s) : IsDigit(s[i])

\* A decoder that reads as far as the input goes.
UnmarshalLenient(d) ==
    LET body == IF Len(d) > Len(DocHead) THEN SubSeq(d, Len(DocHead) + 1, Len(d)) ELSE <<>>
        n == Cardinality({i \in 1..Len(body) : \A j \in 1..i : IsDigit(body[j])})
    IN  IF Len(d) >= Len(DocHead) /\ SubSeq(d, 1, Len(DocHead)) = DocHead /\ n > 0
        THEN [err |-> FALSE, t |-> ParseDigits(SubSeq(body, 1, n))]
        ELSE [err |-> TRUE, t |-> TimeZero]

\* json.Unmarshal(file, &s): the whole input is validated before anything
\* is decoded.
Unmarshal(d) ==
    IF d = <<"{", "}">> \/ d = <<"null">> THEN [err |-> FALSE, t |-> TimeZero]
    ELSE IF IsRecordDoc(d) /\ IsTimeText(FieldText(d))
         THEN [err |-> FALSE, t |-> ParseDigits(FieldText(d))]
         ELSE [err |-> TRUE, t |-> TimeZero]

loadStorage(f) ==
    IF ~f.exists THEN TimeZero
    ELSE LET r == Unmarshal(f.data)
         IN  IF r.err THEN TimeZero ELSE r.t

-----------------------------------------------------------------------------
(* The keyword matcher *)

Lowers == <<"a", "e", "i", "p", "s", "x">>
Uppers == <<"A", "E", "I", "P", "S", "X">>

IsLetter(c) == \E i \in 1..Len(Lowers) : c = Lowers[i] \/ c = Uppers[i]
IsSpace(c) == c \in {" ", "\t", "\n"}

\* [\p{L}\p{N}_]
IsWord(c) == IsLetter(c) \/ IsDigit(c) \/ c = "_"

ToLowerChar(c) ==
    IF \E i \in 1..Len(Uppers) : c = Uppers[i]
    THEN Lowers[CHOOSE i \in 1..Len(Uppers) : c = Uppers[i]]
    ELSE c

\* strings.ToLower
ToLower(w) == [i \in 1..Len(w) |-> ToLowerChar(w[i])]

\* strings.TrimSpace
RECURSIVE TrimSpace(_)
TrimSpace(w) ==
    IF w = <<>> THEN w
    ELSE IF IsSpace(w[1]) THEN TrimSpace(Tail(w))
    ELSE IF IsSpace(w[Len(w)]) THEN TrimSpace(SubSeq(w, 1, Len(w) - 1))
    ELSE w

MetaChars == {"\\", ".", "+", "*", "?", "(", ")", "|", "[", "]", "{", "}", "^", "$"}

\* regexp.QuoteMeta
RECURSIVE QuoteMeta(_)
QuoteMeta(w) ==
    IF w = <<>> THEN <<>>
    ELSE (IF w[1] \in MetaChars THEN <<"\\", w[1]>> ELSE <<w[1]>>) \o QuoteMeta(Tail(w))

RECURSIVE DropSpaces(_)
DropSpaces(q) == IF q # <<>> /\ q[1] = " " THEN DropSpaces(Tail(q)) ELSE q

\* regexp.MustCompile(`\\ +`).ReplaceAllString(quoted, `\s+`): a backslash
\* followed by one or more spaces is replaced.
RECURSIVE ReplaceSpaces(_)
ReplaceSpaces(q) ==
    IF q = <<>> THEN <<>>
    ELSE IF q[1] = "\\" /\ Len(q) >= 2 /\ q[2] = " "
         THEN <<"\\", "s", "+">> \o ReplaceSpaces(DropSpaces(Tail(q)))
         ELSE <<q[1]>> \o ReplaceSpaces(Tail(q))

\* The pattern text of one keyword as the regexp parser reads it: a
\* sequence of atoms [cls, ch, plus]; cls is "lit" (the character ch) or
\* "ws" (\s); plus is the + repetition.
RECURSIVE ParsePattern(_)
ParsePattern(q) ==
    IF q = <<>> THEN <<>>
    ELSE LET esc  == q[1] = "\\" /\ Len(q) >= 2
             ch   == IF esc THEN q[2] ELSE q[1]
             cls  == IF esc /\ ch = "s" THEN "ws" ELSE "lit"
             rest == IF esc THEN Tail(Tail(q)) ELSE Tail(q)
             plus == rest # <<>> /\ rest[1] = "+"
         IN  <<[cls |-> cls, ch |-> ch, plus |-> plus]>>
             \o ParsePattern(IF plus THEN Tail(rest) ELSE rest)

\* noSuffixSet[key]
InNoSuffixExact(noSuffix, key) == \E i \in 1..Len(noSuffix) : noSuffix[i] = key
InNoSuffix(noSuffix, key) ==
    \E i \in 1..Len(noSuffix) : ToLower(TrimSpace(noSuffix[i])) = key

\* The alternation of buildKeywordRegex: one part [atoms, suffix] per
\* keyword that is not blank, in the order of the list.
RECURSIVE buildKeywordRegex(_, _)
buildKeywordRegex(words, noSuffix) ==
    IF words = <<>> THEN <<>>
    ELSE LET w == TrimSpace(words[1])
         IN  (IF w = <<>> THEN <<>>
              ELSE <<[atoms  |-> ParsePattern(ReplaceSpaces(QuoteMeta(w))),
                      suffix |-> ~InNoSuffix(noSuffix, ToLower(w))]>>)
             \o buildKeywordRegex(Tail(words), noSuffix)

\* (?i): one atom against one character of the text.
AtomMatches(a, c) ==
    IF a.cls = "ws" THEN IsSpace(c) ELSE ToLowerChar(a.ch) = ToLowerChar(c)

RECURSIVE RunLen(_, _, _)
RunLen(a, text, p) ==
    IF p <= Len(text) /\ AtomMatches(a, text[p]) THEN 1 + RunLen(a, text, p + 1) ELSE 0

\* The positions at which atoms[k..] can end when started at p, in the
\* order a backtracking search tries them (+ is greedy).
RECURSIVE AtomEnds(_, _, _, _)
RECURSIVE PlusEnds(_, _, _, _, _)
AtomEnds(atoms, k, text, p) ==
    IF k > Len(atoms) THEN <<p>>
    ELSE IF atoms[k].plus THEN PlusEnds(atoms, k, text, p, RunLen(atoms[k], text, p))
    ELSE IF p <= Len(text) /\ AtomMatches(atoms[k], text[p])
         THEN AtomEnds(atoms, k + 1, text, p + 1)
         ELSE <<>>
PlusEnds(atoms, k, text, p, n) ==
    IF n < 1 THEN <<>>
    ELSE AtomEnds(atoms, k + 1, text, p + n) \o PlusEnds(atoms, k, text, p, n - 1)

\* (?:$|[^\p{L}\p{N}_]) at position e
RightBoundary(text, e) == e > Len(text) \/ ~IsWord(text[e])

RECURSIVE WordRun(_, _)
WordRun(text, e) == IF e <= Len(text) /\ IsWord(text[e]) THEN WordRun(text, e + 1) ELSE e

\* The end of the first way one part matches from g with the right
\* boundary after it, 0 if there is none.  The suffix class is greedy and
\* the boundary always holds after the longest run.
RECURSIVE FirstEnd(_, _, _, _)
FirstEnd(part, text, ends, i) ==
    IF i > Len(ends) THEN 0
    ELSE IF part.suffix THEN WordRun(text, ends[i])
    ELSE IF RightBoundary(text, ends[i]) THEN ends[i]
    ELSE FirstEnd(part, text, ends, i + 1)

PartEnd(part, text, g) == FirstEnd(part, text, AtomEnds(part.atoms, 1, text, g), 1)

\* The alternation from g: the first part in list order that matches.
RECURSIVE GroupEnd(_, _, _, _)
GroupEndLongest(re, k, text, g) ==
    LET ends == {PartEnd(re[j], text, g) : j \in k..Len(re)} \cup {0}
    IN  CHOOSE e \in ends : \A f \in ends : f <= e
GroupEnd(re, k, text, g) ==
    IF k > Len(re) THEN 0
    ELSE IF PartEnd(re[k], text, g) # 0 THEN PartEnd(re[k], text, g)
    ELSE GroupEnd(re, k + 1, text, g)

\* A pattern without the left boundary.
MatchAtUnbound(re, text, i) ==
    IF i <= Len(text) /\ GroupEnd(re, 1, text, i) # 0
    THEN <<i, GroupEnd(re, 1, text, i)>>
    ELSE <<0, 0>>

\* The capture of the leftmost match that starts at position i of the
\* text: the left boundary is ^ (only at the start), else one character
\* that is not a word character.  [from, to) or <<0, 0>>.
MatchAt(re, text, i) ==
    LET atStart == IF i = 1 THEN GroupEnd(re, 1, text, 1) ELSE 0
        afterCh == IF i <= Len(text) /\ ~IsWord(text[i])
                   THEN GroupEnd(re, 1, text, i + 1) ELSE 0
    IN  IF atStart # 0 THEN <<1, atStart>>
        ELSE IF afterCh # 0 THEN <<i + 1, afterCh>>
        ELSE <<0, 0>>

RECURSIVE FindSubmatch(_, _, _)
FindSubmatch(re, text, i) ==
    IF i > Len(text) + 1 THEN <<0, 0>>
    ELSE IF MatchAt(re, text, i) # <<0, 0>> THEN MatchAt(re, text, i)
    ELSE FindSubmatch(re, text, i + 1)

\* findKeyword: the captured span, <<>> for no match.
findKeyword(text, re) ==
    LET m == FindSubmatch(re, text, 1)
    IN  IF m = <<0, 0>> THEN <<>> ELSE SubSeq(text, m[1], m[2] - 1)

\* config.yaml
Keywords == << <<"a", "p">>, <<"i", " ", "e">> >>
NoSuffix == << <<"I", " ", "e">> >>

keywordRe == buildKeywordRegex(Keywords, NoSuffix)

\* Message texts of the chat.
Texts == { <<"a", "p">>,
           <<"x", " ", "A", "p", "s">>,
           <<"x", "a", "p">>,
           <<"i", " ", "e", "s">> }

\* found := findKeyword(msg.Text, keywordRe), for each text of the chat
Found == [text \in Texts |-> findKeyword(text, keywordRe)]

-----------------------------------------------------------------------------
(* The messages of the chat *)

\* the "never mentioned" message (main.go:180)
NeverMsg == [type |-> "never"]

\* the status message: the days and the formatted last mention (main.go:183)
StatusMsg(days, last) == [type |-> "status", days |-> days, last |-> last]

\* the reset message: the formatted new instant, daysWas, prevText (main.go:207)
ResetMsg(new, daysWas, prevText) ==
    [type |-> "reset", new |-> new, daysWas |-> daysWas, prev |-> prevText]

\* the soft-trigger notice: the matched span (main.go:224)
NoticeMsg(found) == [type |-> "notice", found |-> found]

\* prevText := "nikogda" (never, main.go:196)
Never == "never"

-----------------------------------------------------------------------------
(* The decisions of the handlers *)

\* !storage.LastMention.IsZero() && time.Since(storage.LastMention) < 2*time.Hour
IsSuppressedInclusive(last, clock) == ~IsZero(last) /\ Since(last, clock) <= CooldownWindow
IsSuppressed(last, clock) == ~IsZero(last) /\ Since(last, clock) < CooldownWindow

\* The reply of /days.
DaysReply(last, clock) ==
    IF IsZero(last) THEN NeverMsg ELSE StatusMsg(DaysSince(last, clock), Format(last))

\* prevText of /reset
PrevText(prev) == IF IsZero(prev) THEN Never ELSE Format(prev)

\* daysWas of /reset
DaysWasAfterAssign(prev, clock) == IF IsZero(clock) THEN 0 ELSE DaysSince(clock, clock)
DaysWas(prev, clock) == IF IsZero(prev) THEN 0 ELSE DaysSince(prev, clock)

\* storage.LastMention = time.Now()
NewLastMentionGated(prev, clock) == IF IsSuppressed(prev, clock) THEN prev ELSE clock
NewLastMention(prev, clock) == clock

\* The reply of the text handler: nothing, or the notice.
TextReply(found, last, clock) ==
    IF found = <<>> \/ IsSuppressed(last, clock) THEN <<>> ELSE <<NoticeMsg(found)>>

\* What the text handler leaves in storage.LastMention.
TextStorageRecording(found, last, clock) ==
    IF TextReply(found, last, clock) # <<>> THEN clock ELSE last
TextStorage(found, last, clock) == last

-----------------------------------------------------------------------------
(* One event at a time *)

Handlers == {1, 2}

\* The matcher is not looked at on its own.
NoMatcher == [words |-> <<>>, noSuffix |-> <<>>, state |-> "off", re |-> <<>>,
              text |-> <<>>, found |-> <<>>]

NoLocals == [prev |-> TimeZero, over |-> TimeZero, daysWas |-> 0, days |-> 0,
             arg |-> TimeZero, found |-> <<>>, msg |-> <<>>]

Event(kind, found, io, pre) ==
    [kind |-> kind, found |-> found, io |-> io, pre |-> pre, noticeAge |-> noticeAge]

Step(kind) == Event(kind, <<>>, "none", TimeZero)

Prefix(d, k) == SubSeq(d, 1, k)

\* The age of the last notice is followed for one minute.
Older(age, d) == IF age = <<>> \/ age[1] + d > Minute THEN <<>> ELSE <<age[1] + d>>

Init ==
    /\ now = StartNow
    /\ ticks = 0
    /\ faults = 0
    /\ proc = "up"
    /\ file \in {NoFile, FileOf(Marshal(StartNow - Minute))}
    /\ storage = loadStorage(file)
    /\ ev = [kind |-> "init", found |-> <<>>, io |-> "none", pre |-> TimeZero,
             noticeAge |-> <<>>]
    /\ out = <<>>
    /\ noticeAge = <<>>
    /\ committed = TimeZero
    /\ writing = TimeZero
    /\ pc = [h \in Handlers |-> "idle"]
    /\ loc = [h \in Handlers |-> NoLocals]
    /\ lastReset = <<>>
    /\ matcher = NoMatcher

\* Time passes.
Tick ==
    /\ ticks < MaxTicks
    /\ \E d \in Deltas :
          /\ now' = now + d
          /\ noticeAge' = Older(noticeAge, d)
    /\ ticks' = ticks + 1
    /\ ev' = Step("tick")
    /\ out' = <<>>
    /\ UNCHANGED <<faults, proc, storage, file, committed, writing,
                   pc, loc, lastReset, matcher>>

\* b.Handle("/days", ...)
HandleDays ==
    /\ proc = "up"
    /\ out' = <<DaysReply(storage, now)>>
    /\ ev' = Step("days")
    /\ UNCHANGED <<now, ticks, faults, proc, storage, file, noticeAge, committed, writing,
                   pc, loc, lastReset, matcher>>

\* os.WriteFile(dataFile, data, 0644): "ok"; "open_err" leaves the file as
\* it is; "write_err" fails after the file was truncated and k characters
\* were written (k = Len(data): the close fails).
WriteFile(f, data, io, k) ==
    IF io = "ok" THEN FileOf(data)
    ELSE IF io = "open_err" THEN f
    ELSE FileOf(Prefix(data, k))

\* b.Handle("/reset", ...), saveStorage included
HandleReset ==
    /\ proc = "up"
    /\ LET new  == NewLastMention(storage, now)
           data == Marshal(new)
       IN  \E io \in {"ok", "open_err", "write_err"} :
           \E k \in 0..Len(data) :
              /\ io # "write_err" => k = 0
              /\ io # "ok" => faults < MaxFaults
              /\ faults' = IF io = "ok" THEN faults ELSE faults + 1
              /\ storage' = new
              /\ file' = WriteFile(file, data, io, k)
              /\ out' = <<ResetMsg(Format(new), DaysWas(storage, now), PrevText(storage))>>
              /\ ev' = Event("reset", <<>>, io, storage)
    /\ noticeAge' = <<>>
    /\ committed' = TimeZero
    /\ writing' = TimeZero
    /\ lastReset' = <<now>>
    /\ UNCHANGED <<now, ticks, proc, pc, loc, matcher>>

\* b.Handle(tb.OnText, ...)
HandleText ==
    /\ proc = "up"
    /\ \E text \in Texts :
         LET found == Found[text]
         IN  /\ out' = TextReply(found, storage, now)
             /\ storage' = TextStorage(found, storage, now)
             /\ ev' = Event("text", found, "none", TimeZero)
    /\ noticeAge' = IF out' # <<>> THEN <<0>> ELSE noticeAge
    /\ UNCHANGED <<now, ticks, faults, proc, file, committed, writing,
                   pc, loc, lastReset, matcher>>

\* The process dies between two events; the memory is lost.
Crash ==
    /\ proc = "up"
    /\ faults < MaxFaults
    /\ faults' = faults + 1
    /\ proc' = "down"
    /\ storage' = TimeZero
    /\ ev' = Step("crash")
    /\ out' = <<>>
    /\ lastReset' = <<>>
    /\ UNCHANGED <<now, ticks, file, noticeAge, committed, writing, pc, loc, matcher>>

\* The process dies in the /reset handler inside os.WriteFile: the file
\* was opened with O_TRUNC and k characters of the new content reached it.
\* committed is what loadStorage read from the file before the save began,
\* writing is the instant that was being saved.
ResetCrash ==
    /\ proc = "up"
    /\ faults < MaxFaults
    /\ faults' = faults + 1
    /\ LET data == Marshal(NewLastMention(storage, now))
       IN  \E k \in 0..Len(data) : file' = FileOf(Prefix(data, k))
    /\ proc' = "down_insave"
    /\ committed' = loadStorage(file)
    /\ writing' = NewLastMention(storage, now)
    /\ storage' = TimeZero
    /\ ev' = Event("crash", <<>>, "crash", TimeZero)
    /\ out' = <<>>
    /\ noticeAge' = <<>>
    /\ lastReset' = <<>>
    /\ UNCHANGED <<now, ticks, pc, loc, matcher>>

\* systemd starts the process again (Restart=always): storage := loadStorage()
Restart ==
    /\ proc # "up"
    /\ proc' = "up"
    /\ storage' = loadStorage(file)
    /\ ev' = Event("restart", <<>>, IF proc = "down_insave" THEN "crash" ELSE "none", TimeZero)
    /\ out' = <<>>
    /\ UNCHANGED <<now, ticks, faults, file, noticeAge, committed, writing,
                   pc, loc, lastReset, matcher>>

Next ==
    \/ Tick
    \/ HandleDays
    \/ HandleReset
    \/ HandleText
    \/ Crash
    \/ ResetCrash
    \/ Restart

Spec == Init /\ [][Next]_vars

-----------------------------------------------------------------------------
(* Queries on records of every age *)

\* The ages: every whole hour up to MaxHours, and one unit, one second and
\* one minute less than the next whole hour.
Elapsed == { h * Hour + m : h \in 0..MaxHours,
                            m \in {0, Hour - Minute, Hour - Second, Hour - 1} }

\* The process starts on the data.json an earlier run left: no file, or a
\* record of some age.
InitDays ==
    /\ \E e \in Elapsed : now = StartNow + e
    /\ ticks = 0
    /\ faults = 0
    /\ proc = "up"
    /\ file \in {NoFile, FileOf(Marshal(StartNow))}
    /\ storage = loadStorage(file)
    /\ ev = [kind |-> "init", found |-> <<>>, io |-> "none", pre |-> TimeZero,
             noticeAge |-> <<>>]
    /\ out = <<>>
    /\ noticeAge = <<>>
    /\ committed = TimeZero
    /\ writing = TimeZero
    /\ pc = [h \in Handlers |-> "idle"]
    /\ loc = [h \in Handlers |-> NoLocals]
    /\ lastReset = <<>>
    /\ matcher = NoMatcher

NextDays ==
    \/ HandleDays
    \/ HandleReset
    \/ ResetCrash
    \/ Restart

SpecDays == InitDays /\ [][NextDays]_vars

-----------------------------------------------------------------------------
(* Starting on any data.json *)

\* What os.ReadFile can return: every sequence of at most MaxDoc characters
\* of JSON punctuation, the key and a digit; a saved document, whole, cut
\* short or followed by more; an object whose last_mention is a string that
\* is no instant; the JSON value null.
JunkChars == {"{", "}", "\"", ":", "last_mention", "1"}

LoadTimes == {StartNow - Minute, StartNow}

BadTimeTexts == {<<>>, <<"x">>, <<"1", "x">>, <<"x", "1">>, <<"1", " ", "1">>}

GoodDocs == {Marshal(t) : t \in LoadTimes}

LoadDocs ==
    UNION {[1..n -> JunkChars] : n \in 0..MaxDoc}
      \cup GoodDocs
      \cup UNION {{Prefix(d, k) : k \in 0..Len(d)} : d \in GoodDocs}
      \cup {d \o <<c>> : d \in GoodDocs, c \in JunkChars}
      \cup {DocHead \o s \o DocTail : s \in BadTimeTexts}
      \cup {<<"null">>}

LoadFiles == {NoFile} \cup {FileOf(d) : d \in LoadDocs}

\* systemd is about to start the process on one of these files.
InitLoad ==
    /\ now = StartNow
    /\ ticks = 0
    /\ faults = 0
    /\ proc = "down"
    /\ file \in LoadFiles
    /\ storage = TimeZero
    /\ ev = [kind |-> "init", found |-> <<>>, io |-> "none", pre |-> TimeZero,
             noticeAge |-> <<>>]
    /\ out = <<>>
    /\ noticeAge = <<>>
    /\ committed = TimeZero
    /\ writing = TimeZero
    /\ pc = [h \in Handlers |-> "idle"]
    /\ loc = [h \in Handlers |-> NoLocals]
    /\ lastReset = <<>>
    /\ matcher = NoMatcher

NextLoad ==
    \/ Restart
    \/ HandleDays
    \/ HandleReset

SpecLoad == InitLoad /\ [][NextLoad]_vars

-----------------------------------------------------------------------------
(* The update loop of the second program *)

(***************************************************************************)
(* The second program of src/main.go (lines 238-409) reads the updates in  *)
(* one loop.  Its keywords are regular expressions of config.yaml, tried   *)
(* in list order and anywhere in the text; the README gives them as        *)
(* (?i)apple\w*.  update.Message.Command() is the command a message starts *)
(* with, and the command with its slash is one character of the text.      *)
(***************************************************************************)

\* regs := compileRegexps(cfg.Keywords) for the keyword (?i)ap\w*
LoopRegs == << [atoms |-> ParsePattern(<<"a", "p">>), suffix |-> TRUE] >>

\* Where the leftmost-first match of r that starts at i ends, 0 for none.
RegEnd(r, text, i) ==
    LET ends == AtomEnds(r.atoms, 1, text, i)
    IN  IF ends = <<>> THEN 0
        ELSE IF r.suffix THEN WordRun(text, ends[1])
        ELSE ends[1]

\* r.FindString(text), searched from position i on
RECURSIVE FindString(_, _, _)
FindString(r, text, i) ==
    IF i > Len(text) THEN <<>>
    ELSE IF RegEnd(r, text, i) # 0 THEN SubSeq(text, i, RegEnd(r, text, i) - 1)
    ELSE FindString(r, text, i + 1)

\* findKeyword(text, regs) of the second program, from the k-th regexp on
RECURSIVE findKeywordRegs(_, _, _)
findKeywordRegs(text, regs, k) ==
    IF k > Len(regs) THEN <<>>
    ELSE IF FindString(regs[k], text, 1) # <<>> THEN FindString(regs[k], text, 1)
    ELSE findKeywordRegs(text, regs, k + 1)

\* What follows the command in the message.
CommandRests == { <<>>, <<" ", "a", "p">> }

\* found := findKeyword(textMsg, regs), for each message of the chat
LoopFound ==
    [textMsg \in Texts \cup {<<"/days">> \o rest : rest \in CommandRests}
        |-> findKeywordRegs(textMsg, LoopRegs, 1)]

\* the reset message of the second program: the formatted new instant
LoopResetMsg(new) == [type |-> "reset", new |-> new]

\* case "days", and what the loop body does after the switch
LoopDays ==
    /\ proc = "up"
    /\ \E rest \in CommandRests :
         LET textMsg == <<"/days">> \o rest
             found   == LoopFound[textMsg]
         IN  /\ out' = IF IsZero(storage) THEN <<NeverMsg>>
                       ELSE <<StatusMsg(DaysSince(storage, now), Format(storage))>>
                            \o TextReply(found, storage, now)
             /\ ev' = Event("days", found, "none", TimeZero)
    /\ noticeAge' = IF Len(out') > 1 THEN <<0>> ELSE noticeAge
    /\ UNCHANGED <<now, ticks, faults, proc, storage, file, committed, writing,
                   pc, loc, lastReset, matcher>>

\* case "reset", saveStorage included
LoopReset ==
    /\ proc = "up"
    /\ LET data == Marshal(now)
       IN  \E io \in {"ok", "open_err", "write_err"} :
           \E k \in 0..Len(data) :
              /\ io # "write_err" => k = 0
              /\ io # "ok" => faults < MaxFaults
              /\ faults' = IF io = "ok" THEN faults ELSE faults + 1
              /\ storage' = now
              /\ file' = WriteFile(file, data, io, k)
              /\ out' = <<LoopResetMsg(Format(now))>>
              /\ ev' = Event("reset", <<>>, io, storage)
    /\ noticeAge' = <<>>
    /\ lastReset' = <<now>>
    /\ UNCHANGED <<now, ticks, proc, committed, writing, pc, loc, matcher>>

\* a message that starts with no command of the switch
LoopText ==
    /\ proc = "up"
    /\ \E textMsg \in Texts :
         LET found == LoopFound[textMsg]
         IN  /\ out' = TextReply(found, storage, now)
             /\ ev' = Event("text", found, "none", TimeZero)
    /\ noticeAge' = IF out' # <<>> THEN <<0>> ELSE noticeAge
    /\ UNCHANGED <<now, ticks, faults, proc, storage, file, committed, writing,
                   pc, loc, lastReset, matcher>>

NextLoop ==
    \/ Tick
    \/ LoopDays
    \/ LoopReset
    \/ LoopText

SpecLoop == Init /\ [][NextLoop]_vars

-----------------------------------------------------------------------------
(* The matcher on every configuration and text *)

\* loadConfig: the keywords list must not be empty (bot_token and topic are
\* there).
loadConfig(words) == IF Len(words) = 0 THEN "fatal" ELSE "ok"

\* config.yaml: keywords and no_suffix.
MatchConfigs ==
    { [words |-> << <<"a", "p">> >>, noSuffix |-> <<>>],
      [words |-> << <<"a", "p">> >>, noSuffix |-> << <<" ", "A", "P", " ">> >>],
      [words |-> << <<"a">>, <<"a", " ", "p">> >>, noSuffix |-> <<>>],
      [words |-> << <<"a">>, <<"a", "p">> >>, noSuffix |-> << <<"a">> >>],
      [words |-> << <<"a", " ", "p">> >>, noSuffix |-> << <<"a", " ", "p">> >>],
      [words |-> << <<>>, <<"P">>, <<" ", "a", "p">> >>, noSuffix |-> <<>>],
      [words |-> << <<" ">>, <<>> >>, noSuffix |-> <<>>],
      [words |-> <<>>, noSuffix |-> <<>>] }

\* msg.Text: every text of at most MaxText characters, and three more.
MatchChars == {"a", "p", "A", " ", "_", "1"}

MatchTexts ==
    UNION {[1..n -> MatchChars] : n \in 0..MaxText}
      \cup { <<"a", "\t", "p">>, <<"a", " ", "\n", "p">>,
             <<"p", "a", "p", " ", "a", "p">> }

InitMatch ==
    /\ now = StartNow
    /\ ticks = 0
    /\ faults = 0
    /\ proc = "up"
    /\ file = NoFile
    /\ storage = TimeZero
    /\ ev = [kind |-> "init", found |-> <<>>, io |-> "none", pre |-> TimeZero,
             noticeAge |-> <<>>]
    /\ out = <<>>
    /\ noticeAge = <<>>
    /\ committed = TimeZero
    /\ writing = TimeZero
    /\ pc = [h \in Handlers |-> "idle"]
    /\ loc = [h \in Handlers |-> NoLocals]
    /\ lastReset = <<>>
    /\ \E c \in MatchConfigs :
          matcher = [words |-> c.words, noSuffix |-> c.noSuffix, state |-> "config",
                     re |-> <<>>, text |-> <<>>, found |-> <<>>]

\* cfg := loadConfig(); keywordRe := buildKeywordRegex(cfg.Keywords, cfg.NoSuffix)
MatchStart ==
    /\ matcher.state = "config"
    /\ matcher' =
         IF loadConfig(matcher.words) = "fatal"
         THEN [matcher EXCEPT !.state = "fatal"]
         ELSE [matcher EXCEPT !.state = "ready",
                              !.re = buildKeywordRegex(matcher.words, matcher.noSuffix)]
    /\ UNCHANGED <<now, ticks, faults, proc, storage, file, ev, out, noticeAge,
                   committed, writing, pc, loc, lastReset>>

\* found := findKeyword(msg.Text, keywordRe)
MatchText ==
    /\ matcher.state = "ready"
    /\ \E text \in MatchTexts :
         matcher' = [matcher EXCEPT !.state = "matched",
                                    !.text = text,
                                    !.found = findKeyword(text, matcher.re)]
    /\ UNCHANGED <<now, ticks, faults, proc, storage, file, ev, out, noticeAge,
                   committed, writing, pc, loc, lastReset>>

NextMatch ==
    \/ MatchStart
    \/ MatchText

SpecMatch == InitMatch /\ [][NextMatch]_vars

-----------------------------------------------------------------------------
(* Claims, one event at a time *)

\* C1: the last-mention record, in memory and in data.json, changes only in
\* a /reset step: a /days query and a text message, with or without a
\* keyword, suppressed or answered with a notice, leave both unchanged (so
\* does the passing of time).
C1_RecordChangesOnlyInReset ==
    [][ev'.kind \in {"days", "text", "tick"} => (storage' = storage /\ file' = file)]_vars

\* A keyword was answered with a notice and the record of the earlier run
\* is still in memory and in data.json.
C1_Witness ==
    /\ ev.kind = "text"
    /\ out = <<NoticeMsg(ev.found)>>
    /\ storage = StartNow - Minute
    /\ file = FileOf(Marshal(StartNow - Minute))

\* C2: a text with a keyword match is suppressed (no message) exactly when
\* the record is present and less than 2 hours old; in every other case
\* exactly one notice with the matched span is sent.  2 hours sharp is not
\* suppressed, one second less is.
C2_SuppressedIffWithinCooldown ==
    (ev.kind = "text" /\ ev.found # <<>>) =>
        /\ (out = <<>>) <=> (storage # TimeZero /\ now - storage < 2 * Hour)
        /\ (out # <<>>) => out = <<[type |-> "notice", found |-> ev.found]>>
        /\ (storage # TimeZero /\ now - storage = 2 * Hour) => out # <<>>
        /\ (storage # TimeZero /\ now - storage = 2 * Hour - Second) => out = <<>>

\* A keyword match exactly 2 hours after the recorded mention got its notice.
C2_Witness ==
    /\ ev.kind = "text"
    /\ ev.found # <<>>
    /\ storage # TimeZero
    /\ now - storage = 2 * Hour
    /\ out = <<NoticeMsg(ev.found)>>

\* A keyword match one second before the end of the window was suppressed.
C2_WitnessSuppressed ==
    /\ ev.kind = "text"
    /\ ev.found # <<>>
    /\ now - storage = 2 * Hour - Second
    /\ out = <<>>

\* C3: a /reset handled at time now sets the record's lastMention to now,
\* also when the previous lastMention is less than 2 hours old.
C3_ResetAlwaysHonored ==
    ev.kind = "reset" => storage = now

\* A reset one minute after the recorded mention took the new instant.
C3_Witness ==
    /\ ev.kind = "reset"
    /\ ev.pre # TimeZero
    /\ now - ev.pre = Minute
    /\ storage = now

\* C4 as stated: a keyword match one minute after a notice, with no reset
\* in between, is suppressed.
C4_SecondMatchSuppressed ==
    (ev.kind = "text" /\ ev.found # <<>> /\ ev.noticeAge = <<Minute>>) => out = <<>>

\* C4 amended: a keyword match one minute after a notice, with no reset in
\* between, is answered with a notice again; the notice left the record as
\* it was.
C4_SecondMatchNoticedAgain ==
    (ev.kind = "text" /\ ev.found # <<>> /\ ev.noticeAge = <<Minute>>) =>
        out = <<[type |-> "notice", found |-> ev.found]>>

\* Reset at T0, a notice at T0 + 3 days 2 hours, a second notice one minute
\* later.
C4_Witness ==
    /\ ev.kind = "text"
    /\ ev.found # <<>>
    /\ ev.noticeAge = <<Minute>>
    /\ storage = StartNow
    /\ now = StartNow + 3 * Day + 2 * Hour + Minute
    /\ out # <<>>

\* C5: when the write of data.json fails during a reset, the in-memory
\* record does not stay at the new instant and no confirmation is sent.
C5_WriteFailureSurfaced ==
    (ev.kind = "reset" /\ ev.io \in {"open_err", "write_err"}) =>
        /\ storage = ev.pre
        /\ \A i \in 1..Len(out) : out[i].type # "reset"

\* C6: after a crash at any point of a save, the load of the restarted
\* process returns the instant data.json held before the save or the new
\* one.
C6_SaveIsCrashAtomic ==
    (ev.kind = "restart" /\ ev.io = "crash") => storage \in {committed, writing}

\* C7: after a crash at any point of a save, the load of the restarted
\* process returns no present instant other than the one data.json held
\* before the save and the one that was being written: a cut data.json
\* reads as absent.
C7_CutFileReadsAbsent ==
    (ev.kind = "restart" /\ ev.io = "crash") => storage \in {TimeZero, committed, writing}

\* The process came back after a crash that left the head and a part of
\* the new instant's digits in data.json, and read it as absent.
C7_Witness ==
    /\ ev.kind = "restart"
    /\ ev.io = "crash"
    /\ committed # TimeZero
    /\ Len(file.data) > Len(DocHead) + 1
    /\ file.data # Marshal(writing)
    /\ storage = TimeZero

\* C9: /days on an absent record answers "never mentioned"; on a present
\* record it answers the whole days of now - lastMention, truncated, and
\* the stored instant (3 days 2 hours: 3, 23h59m: 0, 47h59m: 1).
C9_DaysTruncated ==
    ev.kind = "days" =>
        /\ Len(out) = 1
        /\ storage = TimeZero => out[1] = [type |-> "never"]
        /\ storage # TimeZero =>
             /\ out[1].type = "status"
             /\ out[1].days * Day <= now - storage
             /\ now - storage < (out[1].days + 1) * Day
             /\ out[1].last = storage \div Second
             /\ now - storage = 3 * Day + 2 * Hour => out[1].days = 3
             /\ now - storage = Day - Minute => out[1].days = 0
             /\ now - storage = 2 * Day - Minute => out[1].days = 1
             /\ now - storage = Day => out[1].days = 1

\* /days 47 hours 59 minutes after the recorded mention answered 1 day.
C9_Witness ==
    /\ ev.kind = "days"
    /\ storage # TimeZero
    /\ now - storage = 2 * Day - Minute
    /\ out[1].type = "status"
    /\ out[1].days = 1

\* C10 as stated: the reset summary shows the record as it was before the
\* reset; when no mention was ever recorded the previous instant is the
\* "never" marker and daysWas is not an ordinary day number.
C10_NeverHasSentinelDays ==
    ev.kind = "reset" =>
        /\ out[1].type = "reset"
        /\ ev.pre # TimeZero =>
             /\ out[1].prev = ev.pre \div Second
             /\ out[1].daysWas = (now - ev.pre) \div Day
        /\ ev.pre = TimeZero =>
             /\ out[1].prev = Never
             /\ out[1].daysWas \notin Nat

\* C10 amended: the reset summary shows the record as it was before the
\* reset; when no mention was ever recorded the previous instant is the
\* "never" marker and daysWas is 0, the number a previous mention of less
\* than a day ago gives as well.
C10_ResetSummary ==
    ev.kind = "reset" =>
        /\ out[1].type = "reset"
        /\ ev.pre # TimeZero =>
             /\ out[1].prev = ev.pre \div Second
             /\ out[1].daysWas = (now - ev.pre) \div Day
        /\ ev.pre = TimeZero =>
             /\ out[1].prev = Never
             /\ out[1].daysWas = 0

\* The first reset ever: "never" and 0 days.
C10_Witness ==
    /\ ev.kind = "reset"
    /\ ev.pre = TimeZero
    /\ out[1].prev = Never
    /\ out[1].daysWas = 0

\* A reset 3 days 2 hours after the previous one: 3 days.
C10_WitnessPresent ==
    /\ ev.kind = "reset"
    /\ ev.pre # TimeZero
    /\ now - ev.pre = 3 * Day + 2 * Hour
    /\ out[1].daysWas = 3

\* C11: a /days query handled after a /reset of the same process, less than
\* 24 hours later and with no other reset in between, answers 0 days and the
\* instant of that reset as the last mention, never "never mentioned".
C11_DaysAfterReset ==
    (ev.kind = "days" /\ lastReset # <<>> /\ now - lastReset[1] < Day)
        => out = <<StatusMsg(0, Format(lastReset[1]))>>

\* The query comes at the instant of the reset.
C11_Witness ==
    /\ ev.kind = "days"
    /\ lastReset = <<now>>
    /\ out = <<StatusMsg(0, Format(now))>>

\* The query comes hours after the reset, a keyword text in between.
C11_WitnessLater ==
    /\ ev.kind = "days"
    /\ lastReset # <<>>
    /\ now - lastReset[1] >= CooldownWindow
    /\ noticeAge # <<>>
    /\ out = <<StatusMsg(0, Format(lastReset[1]))>>

\* C12: what saveStorage wrote for an instant t, loadStorage reads back as a
\* present record of the same instant to the second, in the process that
\* saved it and in the process that starts after it.
C12_SaveLoadRoundTrip ==
    /\ (ev.kind = "reset" /\ ev.io = "ok")
          => /\ ~IsZero(loadStorage(file))
             /\ loadStorage(file) \div Second = now \div Second
    /\ (ev.kind = "restart" /\ ev.io = "crash" /\ file = FileOf(Marshal(writing)))
          => /\ ~IsZero(storage)
             /\ storage \div Second = writing \div Second

\* The save went through at an instant that is not on a whole second.
C12_Witness ==
    /\ ev.kind = "reset"
    /\ ev.io = "ok"
    /\ now % Second # 0
    /\ loadStorage(file) = now

\* The process died after the last character of the file was written and
\* the next process read the file.
C12_WitnessRestart ==
    /\ ev.kind = "restart"
    /\ ev.io = "crash"
    /\ file = FileOf(Marshal(writing))
    /\ writing % Minute # 0
    /\ storage = writing

\* C13: whatever data.json holds, loadStorage returns to main and the
\* process runs; unless the file is a document saveStorage wrote, the
\* record it returns is the absent one.
C13_LoadNeverFails ==
    ev.kind = "restart"
        => /\ proc = "up"
           /\ file \notin {FileOf(d) : d \in GoodDocs} => IsZero(storage)

\* A well-formed object whose last_mention is no instant.
C13_Witness ==
    /\ ev.kind = "restart"
    /\ proc = "up"
    /\ file = FileOf(DocHead \o <<"1", "x">> \o DocTail)
    /\ IsZero(storage)

\* No file, an empty file, and a file that is not JSON, each followed by a
\* /days query that is answered.
C13_WitnessMissing ==
    /\ ev.kind = "days"
    /\ file = NoFile
    /\ out = <<NeverMsg>>

C13_WitnessEmpty ==
    /\ ev.kind = "days"
    /\ file = FileOf(<<>>)
    /\ out = <<NeverMsg>>

C13_WitnessNotJson ==
    /\ ev.kind = "days"
    /\ file = FileOf(Marshal(StartNow) \o <<"}">>)
    /\ out = <<NeverMsg>>

\* C14: an inbound event is answered with at most one message, and a text
\* without a keyword or with a suppressed match with none; a command whose
\* text also holds a keyword is answered once.
C14_AtMostOneResponse ==
    /\ Len(out) <= 1
    /\ (ev.kind = "text" /\ (ev.found = <<>> \/ IsSuppressed(storage, now)))
          => out = <<>>

\* C15: a keyword occurrence with a letter, digit or underscore right before
\* it is never what findKeyword reports, whatever the suffix policy; an
\* occurrence at the start of the text or after another character that is
\* a whole token is a match; with the suffix allowed for keywords made of
\* word characters the match is the token from the leftmost such occurrence
\* to its end.
C15_LeftBoundary ==
    matcher.state = "matched" =>
        LET text  == matcher.text
            found == matcher.found
            keys  == {ToLower(TrimSpace(matcher.words[i])) : i \in 1..Len(matcher.words)}
                        \ {<<>>}
            Occ(k, p) == /\ p + Len(k) - 1 <= Len(text)
                         /\ ToLower(SubSeq(text, p, p + Len(k) - 1)) = k
            LeftOk(p)  == p = 1 \/ ~IsWord(text[p - 1])
            RightOk(e) == e > Len(text) \/ ~IsWord(text[e])
            Starts == {p \in 1..Len(text) : LeftOk(p) /\ \E k \in keys : Occ(k, p)}
            First  == CHOOSE p \in Starts : \A q \in Starts : p <= q
        IN  /\ found # <<>> =>
                  \E p \in Starts : /\ p + Len(found) - 1 <= Len(text)
                                     /\ found = SubSeq(text, p, p + Len(found) - 1)
            /\ (\E p \in Starts : \E k \in keys : Occ(k, p) /\ RightOk(p + Len(k)))
                  => found # <<>>
            /\ (/\ matcher.noSuffix = <<>>
                /\ \A k \in keys : \A i \in 1..Len(k) : IsWord(k[i])
                /\ Starts # {})
                  => found = SubSeq(text, First, WordRun(text, First) - 1)

\* "pap ap": the occurrence inside "pap" is passed over, the token "ap" is
\* reported.
C15_Witness ==
    /\ matcher.state = "matched"
    /\ matcher.text = <<"p", "a", "p", " ", "a", "p">>
    /\ matcher.found = <<"a", "p">>

\* "_ap1": the only occurrence follows an underscore, nothing is reported.
C15_WitnessNone ==
    /\ matcher.state = "matched"
    /\ matcher.words = << <<"a", "p">> >>
    /\ matcher.text = <<"_", "a", "p", "1">>
    /\ matcher.found = <<>>

\* " Ap1": the match runs to the end of the token.
C15_WitnessSuffix ==
    /\ matcher.state = "matched"
    /\ matcher.noSuffix = <<>>
    /\ matcher.text = <<" ", "A", "p", "1">>
    /\ matcher.found = <<"A", "p", "1">>

\* C16: when every keyword is in no_suffix (compared trimmed and without
\* case), what findKeyword reports is a keyword exactly; a keyword with a
\* word character right after it ("aps" for "ap") is no match, and a
\* keyword at a left boundary followed by the end of the text or by another
\* character is one.
C16_NoSuffixExactToken ==
    (/\ matcher.state = "matched"
     /\ \A i \in 1..Len(matcher.words) :
           \/ TrimSpace(matcher.words[i]) = <<>>
           \/ \E j \in 1..Len(matcher.noSuffix) :
                 ToLower(TrimSpace(matcher.noSuffix[j]))
                   = ToLower(TrimSpace(matcher.words[i])))
    => LET text  == matcher.text
           found == matcher.found
           keys  == {ToLower(TrimSpace(matcher.words[i])) : i \in 1..Len(matcher.words)}
                       \ {<<>>}
           Whole(k, p) ==
               /\ p + Len(k) - 1 <= Len(text)
               /\ ToLower(SubSeq(text, p, p + Len(k) - 1)) = k
               /\ p = 1 \/ ~IsWord(text[p - 1])
               /\ p + Len(k) > Len(text) \/ ~IsWord(text[p + Len(k)])
       IN  /\ found # <<>> => ToLower(found) \in keys
           /\ found # <<>> <=> \E k \in keys : \E p \in 1..Len(text) : Whole(k, p)

\* "ap_" with "ap" in no_suffix (written " AP "): no match.
C16_Witness ==
    /\ matcher.state = "matched"
    /\ matcher.noSuffix = << <<" ", "A", "P", " ">> >>
    /\ matcher.text = <<"a", "p", "_">>
    /\ matcher.found = <<>>

\* "Ap a": the keyword followed by a space is reported as it stands.
C16_WitnessToken ==
    /\ matcher.state = "matched"
    /\ matcher.noSuffix = << <<" ", "A", "P", " ">> >>
    /\ matcher.text = <<"A", "p", " ", "a">>
    /\ matcher.found = <<"A", "p">>

\* C17: a keywords list that is empty once its blank entries are dropped is
\* a configuration error: no matcher is built from it.
C17_BlankKeywordsRejected ==
    matcher.state \in {"ready", "matched"}
        => \E i \in 1..Len(matcher.words) : TrimSpace(matcher.words[i]) # <<>>

\* C18: the space inside a keyword stands for any run of white space: the
\* keyword "a p" is found in a text that is "a", white space, "p".
C18_InnerSpaceIsAnyWhitespace ==
    (/\ matcher.state = "matched"
     /\ \E i \in 1..Len(matcher.words) : matcher.words[i] = <<"a", " ", "p">>
     /\ Len(matcher.text) >= 3
     /\ matcher.text[1] = "a"
     /\ matcher.text[Len(matcher.text)] = "p"
     /\ \A i \in 2..(Len(matcher.text) - 1) : IsSpace(matcher.text[i]))
    => matcher.found # <<>>

\* C19: findKeyword reports the match with the leftmost start; at that start
\* the first keyword of the list that can complete a match there, the right
\* boundary included, gives the span.
C19_LeftmostThenListOrder ==
    matcher.state = "matched" =>
        LET text  == matcher.text
            found == matcher.found
            IsKey(w) == TrimSpace(w) # <<>>
            keys  == SelectSeq(matcher.words, IsKey)
            Key(j) == TrimSpace(keys[j])
            Exact(j) == \E i \in 1..Len(matcher.noSuffix) :
                           ToLower(TrimSpace(matcher.noSuffix[i])) = ToLower(Key(j))
            Occ(j, p) == /\ p + Len(Key(j)) - 1 <= Len(text)
                         /\ ToLower(SubSeq(text, p, p + Len(Key(j)) - 1)) = ToLower(Key(j))
                         /\ p = 1 \/ ~IsWord(text[p - 1])
            After(j, p) == p + Len(Key(j))
            Completes(j, p) ==
                Occ(j, p) /\ (Exact(j) => After(j, p) > Len(text) \/ ~IsWord(text[After(j, p)]))
            EndOf(j, p) == IF Exact(j) THEN After(j, p) ELSE WordRun(text, After(j, p))
            Starts == {p \in 1..Len(text) : \E j \in 1..Len(keys) : Completes(j, p)}
            P == CHOOSE p \in Starts : \A q \in Starts : p <= q
            J == CHOOSE j \in 1..Len(keys) :
                    Completes(j, P) /\ \A i \in 1..(j - 1) : ~Completes(i, P)
        IN  IF Starts = {} THEN found = <<>>
            ELSE found = SubSeq(text, P, EndOf(J, P) - 1)

\* "a p" with the keywords "a" (suffix allowed) and "a p": "a" is reported.
C19_Witness ==
    /\ matcher.state = "matched"
    /\ matcher.words = << <<"a">>, <<"a", " ", "p">> >>
    /\ matcher.text = <<"a", " ", "p">>
    /\ matcher.found = <<"a">>

\* "1 ap" with the keywords "a" (in no_suffix) and "ap": "a" cannot end
\* before "p", the second keyword is reported.
C19_WitnessLater ==
    /\ matcher.state = "matched"
    /\ matcher.words = << <<"a">>, <<"a", "p">> >>
    /\ matcher.text = <<"1", " ", "a", "p">>
    /\ matcher.found = <<"a", "p">>

\* "p ap" with the keywords "P" and " ap": the leftmost match is reported,
\* not the one of the keyword listed last.
C19_WitnessLeftmost ==
    /\ matcher.state = "matched"
    /\ Len(matcher.words) = 3
    /\ matcher.text = <<"p", " ", "a", "p">>
    /\ matcher.found = <<"p">>

\* C20: after startup and after every event the process has finished, the
\* record in memory is the record loadStorage would read from data.json.
C20_MemoryEqualsFile ==
    proc = "up" => storage = loadStorage(file)

\* C21: with a clock that only moves forward, the last mention in memory
\* and the one data.json holds are absent or not later than the clock, a
\* /reset never replaces the record by an earlier instant, and the days of
\* the /days answer and of the /reset summary are never negative.
C21_RecordNotInFuture ==
    /\ IsZero(storage) \/ storage <= now
    /\ IsZero(loadStorage(file)) \/ loadStorage(file) <= now
    /\ ev.kind = "reset" => (ev.pre <= storage /\ out[1].daysWas >= 0)
    /\ (ev.kind = "days" /\ out[1].type = "status") => out[1].days >= 0

\* A reset days after the previous one: the record moves forward and the
\* summary counts whole days.
C21_Witness ==
    /\ ev.kind = "reset"
    /\ ~IsZero(ev.pre)
    /\ ev.pre < storage
    /\ storage = now
    /\ out[1].daysWas > 0

\* A /days answer that counts whole days on a record a restarted process
\* read from data.json.
C21_WitnessDays ==
    /\ ev.kind = "days"
    /\ faults > 0
    /\ lastReset = <<>>
    /\ out[1].type = "status"
    /\ out[1].days > 0

-----------------------------------------------------------------------------
(* Concurrent dispatch *)

(***************************************************************************)
(* tb.Settings{Token, Poller} leaves Synchronous unset, and the bot then   *)
(* runs every handler in a goroutine of its own.  The three closures share *)
(* main's variable storage and data.json; each read and each write of      *)
(* storage.LastMention is one step, and so is the write of the file.  A    *)
(* read that races with the assignment sees the old or the new value (the  *)
(* three words of a time.Time are not taken apart here).                   *)
(***************************************************************************)

Goto(h, label) == pc' = [pc EXCEPT ![h] = label]

\* Time passes while handlers run.
ConcTick ==
    /\ ticks < MaxTicks
    /\ ticks' = ticks + 1
    /\ now' = now + Minute
    /\ UNCHANGED <<faults, proc, storage, file, ev, out, noticeAge, committed, writing,
                   pc, loc, lastReset, matcher>>

ConcFrame ==
    UNCHANGED <<now, ticks, faults, proc, ev, out, noticeAge, committed, writing,
                lastReset, matcher>>

\* /days, line 179: if storage.LastMention.IsZero()
DaysStart(h) ==
    /\ pc[h] = "idle"
    /\ IF IsZero(storage)
       THEN /\ loc' = [loc EXCEPT ![h] = [NoLocals EXCEPT !.msg = <<NeverMsg>>]]
            /\ UNCHANGED pc
       ELSE /\ loc' = [loc EXCEPT ![h] = NoLocals]
            /\ Goto(h, "d_days")
    /\ UNCHANGED <<storage, file>>
    /\ ConcFrame

\* /days, line 182: days := int(time.Since(storage.LastMention).Hours() / 24)
DaysCompute(h) ==
    /\ pc[h] = "d_days"
    /\ loc' = [loc EXCEPT ![h].days = DaysSince(storage, now)]
    /\ Goto(h, "d_send")
    /\ UNCHANGED <<storage, file>>
    /\ ConcFrame

\* /days, lines 183-187: the text with storage.LastMention.Format(...)
DaysSend(h) ==
    /\ pc[h] = "d_send"
    /\ loc' = [loc EXCEPT ![h].msg = <<StatusMsg(loc[h].days, Format(storage))>>]
    /\ Goto(h, "idle")
    /\ UNCHANGED <<storage, file>>
    /\ ConcFrame

\* /reset, lines 195-203: prevLastMention := storage.LastMention, daysWas
ResetStart(h) ==
    /\ pc[h] = "idle"
    /\ loc' = [loc EXCEPT ![h] = [NoLocals EXCEPT !.prev = storage,
                                                  !.over = storage,
                                                  !.daysWas = DaysWas(storage, now)]]
    /\ Goto(h, "r_set")
    /\ UNCHANGED <<storage, file>>
    /\ ConcFrame

\* /reset, line 205: storage.LastMention = time.Now(); over is the value
\* the assignment overwrites.
ResetSet(h) ==
    /\ pc[h] = "r_set"
    /\ storage' = NewLastMention(storage, now)
    /\ loc' = [loc EXCEPT ![h].over = storage]
    /\ Goto(h, "r_call")
    /\ UNCHANGED file
    /\ ConcFrame

\* /reset, line 206: saveStorage(storage) takes a copy of storage
ResetCall(h) ==
    /\ pc[h] = "r_call"
    /\ loc' = [loc EXCEPT ![h].arg = storage]
    /\ Goto(h, "r_write")
    /\ UNCHANGED <<storage, file>>
    /\ ConcFrame

\* saveStorage, lines 85-90: os.WriteFile(dataFile, data, 0644)
ResetWrite(h) ==
    /\ pc[h] = "r_write"
    /\ file' = WriteFile(file, Marshal(loc[h].arg), "ok", 0)
    /\ Goto(h, "r_send")
    /\ UNCHANGED <<storage, loc>>
    /\ ConcFrame

\* /reset, lines 207-210: the text with storage.LastMention.Format(...)
ResetSend(h) ==
    /\ pc[h] = "r_send"
    /\ loc' = [loc EXCEPT ![h].msg =
                 <<ResetMsg(Format(storage), loc[h].daysWas, PrevText(loc[h].prev))>>]
    /\ Goto(h, "idle")
    /\ UNCHANGED <<storage, file>>
    /\ ConcFrame

\* text, lines 218-220: findKeyword, then !storage.LastMention.IsZero()
TextStart(h) ==
    /\ pc[h] = "idle"
    /\ \E text \in Texts :
         IF Found[text] = <<>>
         THEN /\ loc' = [loc EXCEPT ![h] = NoLocals]
              /\ UNCHANGED pc
         ELSE IF IsZero(storage)
         THEN /\ loc' = [loc EXCEPT ![h] = [NoLocals EXCEPT !.found = Found[text],
                                                        !.msg = <<NoticeMsg(Found[text])>>]]
              /\ UNCHANGED pc
         ELSE /\ loc' = [loc EXCEPT ![h] = [NoLocals EXCEPT !.found = Found[text]]]
              /\ Goto(h, "t_since")
    /\ UNCHANGED <<storage, file>>
    /\ ConcFrame

\* text, lines 220-229: time.Since(storage.LastMention) < 2*time.Hour
TextSince(h) ==
    /\ pc[h] = "t_since"
    /\ loc' = [loc EXCEPT ![h].msg = TextReply(loc[h].found, storage, now)]
    /\ Goto(h, "idle")
    /\ UNCHANGED <<storage, file>>
    /\ ConcFrame

NextConc ==
    \/ ConcTick
    \/ \E h \in Handlers :
          \/ DaysStart(h)
          \/ DaysCompute(h)
          \/ DaysSend(h)
          \/ ResetStart(h)
          \/ ResetSet(h)
          \/ ResetCall(h)
          \/ ResetWrite(h)
          \/ ResetSend(h)
          \/ TextStart(h)
          \/ TextSince(h)

SpecConc == Init /\ [][NextConc]_vars

\* C8: the handlers run under one mutual-exclusion scope from their first
\* read of the record to the end of their decision or write: no two of
\* them are inside at once, a reset overwrites the value it read as its
\* previous instant, and when no handler runs the record in memory is the
\* record in data.json.
C8_HandlersSerialized ==
    /\ \A g, h \in Handlers : g # h => (pc[g] = "idle" \/ pc[h] = "idle")
    /\ \A h \in Handlers : loc[h].over = loc[h].prev
    /\ (\A h \in Handlers : pc[h] = "idle") => storage = loadStorage(file)

\* Two resets have run to their end, the record in memory is not the
\* record in data.json.
C8_LostUpdate ==
    /\ \A h \in Handlers : pc[h] = "idle" /\ loc[h].msg # <<>> /\ loc[h].msg[1].type = "reset"
    /\ storage # loadStorage(file)

\* Two resets have run to their end and both report the same previous
\* instant although they were handled at different times.
C8_SamePrevious ==
    /\ \A h \in Handlers : pc[h] = "idle" /\ loc[h].msg # <<>> /\ loc[h].msg[1].type = "reset"
    /\ loc[1].prev = loc[2].prev
    /\ loc[1].arg # loc[2].arg

====
